---- MODULE Spec2Model ----
(***************************************************************************)
(* SQuAD-Translation: the span cleaner (src/src/clean_translations.py) and *)
(* the translation driver (src/src/translation_pipeline.py).               *)
(*                                                                         *)
(* Strings are sequences of Unicode code points; offsets count from 0 as   *)
(* in Python, sequence positions from 1 as in TLA+.  A dict is a record; a *)
(* key that may be missing is a field that may be missing from the record. *)
(* The input document is read in document order by the loops of the code;  *)
(* the model draws each element when the loop reaches it and records it in *)
(* the input variable (data, squad_data).                                  *)
(***************************************************************************)
EXTENDS Integers, Sequences, FiniteSets

VARIABLES
    pc,               \* position of the running script
    \* ---- clean_translations.py
    context, answer,  \* arguments of a direct find_answer_span call
    span,             \* its result
    data,             \* the loaded document's 'data' list, as far as read
    cleaned_data,     \* clean_squad_dataset: cleaned_data['data']
    error_reports,    \* clean_squad_dataset: error_reports
    cleaned_article,  \* clean_squad_dataset: cleaned_article
    cleaned_qas,      \* clean_squad_dataset: cleaned_qas
    verified,         \* ids handed to verify_and_correct_example, in call order
    summary,          \* the three counts __main__ prints
    \* ---- translation_pipeline.py
    texts,            \* argument of a direct batch_translate_texts call
    fail_at,          \* which client.translate call of it raises (0: none)
    translations,     \* its result
    squad_data,       \* the loaded document's 'data' list, as far as read
    max_contexts,     \* config: max_contexts
    batch_size,       \* config: batch_size
    translated_data,  \* translate_squad_batch: translated_data['data']
    stats,            \* translate_squad_batch: stats
    current_article,  \* translate_squad_batch: current_article
    current_batch_contexts,
    current_batch_paras,
    translated_contexts,
    idx,              \* position of the batch loop (enumerate), from 1
    tail,             \* TRUE in the batch loop that follows the paragraph loop
    out_file,         \* the output file: <<>> or <<the dataset written last>>
    raises,           \* client.translate calls that raised so far
    largest_call,     \* the most strings handed to one client.translate call
    critical          \* TRUE once 'Critical error' is printed

cleanVars == <<context, answer, span, data, cleaned_data, error_reports,
               cleaned_article, cleaned_qas, verified, summary>>

transVars == <<texts, fail_at, translations, squad_data, max_contexts, batch_size,
               translated_data, stats, current_article, current_batch_contexts,
               current_batch_paras, translated_contexts, idx, tail, out_file, raises,
               largest_call, critical>>

vars == <<pc, cleanVars, transVars>>

----------------------------------------------------------------------------
(* Bounds of the explored inputs *)

MaxCtxLen == 4
MaxAnsLen == 2
MaxDocSize == 6
MaxTexts == 258
MaxFailAt == 3
MaxTDocSize == 4
MaxConfig == 2
MaxRaises == 1

----------------------------------------------------------------------------
(* Texts *)

\* The Sinhala letters U+0D85, U+0D9A and U+0D9C are 3461, 3482 and 3484; a is
\* 97, Z is 90, the bracket after Z is 91.
LocateChars == {3461, 3482}

StringsUpTo(alphabet, n) == UNION {[1..k -> alphabet] : k \in 0..n}

ctxSi == <<3461, 3482, 3461, 3482>>
ctxMixed == <<3482, 3461, 3482, 97>>
Contexts == {ctxSi, ctxMixed}

tFound == <<3461, 3482>>
tMissing == <<3484>>
tLatin == <<97>>
tEmpty == <<>>
qClean == <<3484, 3461, 91>>
qLatin == <<3484, 90>>

\* question and answers of the QA pairs a document may hold; each has a first
\* answer (qa['answers'][0] raises on a pair without answers)
QAPool ==
    { [question |-> qClean,
       answers |-> <<[text |-> tFound, answer_start |-> 2],
                     [text |-> tLatin, answer_start |-> 0]>>],
      [question |-> qClean, answers |-> <<[text |-> tFound, answer_start |-> 7]>>],
      [question |-> qClean, answers |-> <<[text |-> tMissing]>>],
      [question |-> qLatin, answers |-> <<[text |-> tFound, answer_start |-> 0]>>],
      [question |-> qClean, answers |-> <<[text |-> tLatin, answer_start |-> 3]>>],
      [question |-> qClean, answers |-> <<[text |-> tEmpty, answer_start |-> 0]>>] }

----------------------------------------------------------------------------
(* clean_translations.py: the pure functions *)

None == <<>>

RECURSIVE FindFrom(_, _, _)
FindFrom(s, sub, i) ==
    IF i + Len(sub) > Len(s) THEN -1
    ELSE IF SubSeq(s, i + 1, i + Len(sub)) = sub THEN i
    ELSE FindFrom(s, sub, i + 1)

\* a search that keeps the last occurrence (str.rfind) instead of the first
RECURSIVE RFindFrom(_, _, _)
RFindFrom(s, sub, i) ==
    IF i < 0 THEN -1
    ELSE IF SubSeq(s, i + 1, i + Len(sub)) = sub THEN i
    ELSE RFindFrom(s, sub, i - 1)

StrFindLast(s, sub) == RFindFrom(s, sub, Len(s) - Len(sub))

\* str.find: the lowest index at which sub occurs in s, -1 when it does not
StrFind(s, sub) == FindFrom(s, sub, 0)

find_answer_span(ctx, ans) ==
    LET start_idx == StrFind(ctx, ans)
    IN  IF start_idx = -1 THEN None
        ELSE <<start_idx, start_idx + Len(ans)>>

\* dict.get('answer_start', -1)
GetAnswerStart(ans) ==
    IF "answer_start" \in DOMAIN ans THEN ans.answer_start ELSE -1

verify_and_correct_example(ctx, ans) ==
    LET answer_text == ans.text
        sp == find_answer_span(ctx, answer_text)
    IN  IF sp = None
        THEN [text |-> answer_text, original_start |-> GetAnswerStart(ans),
              is_valid |-> FALSE, error |-> "Answer text not found in context"]
        ELSE [text |-> answer_text, original_start |-> GetAnswerStart(ans),
              is_valid |-> TRUE, error |-> "None",
              corrected_start |-> sp[1], corrected_end |-> sp[2]]

\* re.search(r'[a-zA-Z]', text)
IsEnglishChar(c) == (c >= 65 /\ c <= 90) \/ (c >= 97 /\ c <= 122)

\* a filter that knows the lower-case letters only: r'[a-z]'
contains_english_lower(text) == \E i \in 1..Len(text) : text[i] >= 97 /\ text[i] <= 122

contains_english(text) == \E i \in 1..Len(text) : IsEnglishChar(text[i])

----------------------------------------------------------------------------
(* The script that is not running *)

TransIdle ==
    /\ texts = <<>>
    /\ fail_at = 0
    /\ translations = <<>>
    /\ squad_data = <<>>
    /\ max_contexts = 0
    /\ batch_size = 1
    /\ translated_data = <<>>
    /\ stats = [contexts_processed |-> 0, qa_pairs_processed |-> 0]
    /\ current_article = [title |-> 0, paragraphs |-> <<>>]
    /\ current_batch_contexts = <<>>
    /\ current_batch_paras = <<>>
    /\ translated_contexts = <<>>
    /\ idx = 1
    /\ tail = FALSE
    /\ out_file = <<>>
    /\ raises = 0
    /\ largest_call = 0
    /\ critical = FALSE

CleanIdle ==
    /\ context = <<>>
    /\ answer = <<>>
    /\ span = <<>>
    /\ data = <<>>
    /\ cleaned_data = <<>>
    /\ error_reports = <<>>
    /\ cleaned_article = [title |-> 0, paragraphs |-> <<>>]
    /\ cleaned_qas = <<>>
    /\ verified = <<>>
    /\ summary = [total_original_qas |-> 0, total_cleaned_qas |-> 0, error_count |-> 0]

----------------------------------------------------------------------------
(* clean_translations.py: a direct call of find_answer_span *)

InitLocate ==
    /\ pc = "locate"
    /\ context \in StringsUpTo(LocateChars, MaxCtxLen)
    /\ answer \in StringsUpTo(LocateChars, MaxAnsLen)
    /\ span = None
    /\ data = <<>>
    /\ cleaned_data = <<>>
    /\ error_reports = <<>>
    /\ cleaned_article = [title |-> 0, paragraphs |-> <<>>]
    /\ cleaned_qas = <<>>
    /\ verified = <<>>
    /\ summary = [total_original_qas |-> 0, total_cleaned_qas |-> 0, error_count |-> 0]
    /\ TransIdle

Locate ==
    /\ pc = "locate"
    /\ span' = find_answer_span(context, answer)
    /\ pc' = "located"
    /\ UNCHANGED <<transVars, context, answer, data, cleaned_data, error_reports,
                   cleaned_article, cleaned_qas, verified, summary>>

----------------------------------------------------------------------------
(* clean_translations.py: clean_squad_dataset and __main__ *)

RECURSIVE SumLen(_)
SumLen(seqs) == IF seqs = <<>> THEN 0 ELSE Len(Head(seqs)) + SumLen(Tail(seqs))

\* sum(len(p['qas']) for a in d for p in a['paragraphs'])
RECURSIVE CountQas(_)
CountQas(d) ==
    IF d = <<>> THEN 0
    ELSE SumLen([i \in 1..Len(Head(d).paragraphs) |-> Head(d).paragraphs[i].qas])
         + CountQas(Tail(d))

\* articles, paragraphs and QA pairs of a document, counted together
DocSize(d) == Len(d) + SumLen([i \in 1..Len(d) |-> d[i].paragraphs]) + CountQas(d)

curArticle == Len(data)
curPara == Len(data[curArticle].paragraphs)
curContext == data[curArticle].paragraphs[curPara].context

InitClean ==
    /\ pc = "articles"
    /\ context = <<>>
    /\ answer = <<>>
    /\ span = None
    /\ data = <<>>
    /\ cleaned_data = <<>>
    /\ error_reports = <<>>
    /\ cleaned_article = [title |-> 0, paragraphs |-> <<>>]
    /\ cleaned_qas = <<>>
    /\ verified = <<>>
    /\ summary = [total_original_qas |-> 0, total_cleaned_qas |-> 0, error_count |-> 0]
    /\ TransIdle

\* for article in data['data']: the next article
ArticleBegin ==
    /\ pc = "articles"
    /\ DocSize(data) < MaxDocSize
    /\ data' = Append(data, [title |-> Len(data) + 1, paragraphs |-> <<>>])
    /\ cleaned_article' = [title |-> Len(data) + 1, paragraphs |-> <<>>]
    /\ pc' = "paras"
    /\ UNCHANGED <<transVars, context, answer, span, cleaned_data, error_reports,
                   cleaned_qas, verified, summary>>

\* for para in article['paragraphs']: the next paragraph
ParaBegin ==
    /\ pc = "paras"
    /\ DocSize(data) < MaxDocSize
    /\ \E c \in Contexts :
          data' = [data EXCEPT ![curArticle].paragraphs =
                       Append(@, [context |-> c, qas |-> <<>>])]
    /\ cleaned_qas' = <<>>
    /\ pc' = "qas"
    /\ UNCHANGED <<transVars, context, answer, span, cleaned_data, error_reports,
                   cleaned_article, verified, summary>>

\* the QA pair the loop reaches next, with its id
NextQa(q) ==
    [id |-> <<curArticle, curPara, Len(data[curArticle].paragraphs[curPara].qas) + 1>>,
     question |-> q.question, answers |-> q.answers]

ReadQa(qa) ==
    /\ DocSize(data) < MaxDocSize
    /\ data' = [data EXCEPT ![curArticle].paragraphs[curPara].qas = Append(@, qa)]

ErrorReport(qa, ctx, ans, err) ==
    [id |-> qa.id, question |-> qa.question, context |-> ctx, answer |-> ans,
     error |-> err]

\* a cleaned pair that keeps the offset the input carried
CleanedQaStaleOffset(qa, verification) ==
    [id |-> qa.id, question |-> qa.question,
     answers |-> <<[text |-> verification.text,
                    answer_start |-> verification.original_start]>>]

CleanedQa(qa, verification) ==
    [id |-> qa.id, question |-> qa.question,
     answers |-> <<[text |-> verification.text,
                    answer_start |-> verification.corrected_start]>>]

\* the filter branch without its continue: the pair is reported and then
\* goes on to the validator
QaEnglishNoContinue ==
    /\ pc = "qas"
    /\ \E q \in QAPool :
          LET qa == NextQa(q)
              ans == qa.answers[1]
              verification == verify_and_correct_example(curContext, ans)
          IN  /\ contains_english(qa.question) \/ contains_english(ans.text)
              /\ ReadQa(qa)
              /\ verified' = Append(verified, qa.id)
              /\ IF verification.is_valid
                 THEN /\ cleaned_qas' = Append(cleaned_qas, CleanedQa(qa, verification))
                      /\ error_reports' = Append(error_reports,
                            ErrorReport(qa, curContext, ans, "Contains English characters"))
                 ELSE /\ cleaned_qas' = cleaned_qas
                      /\ error_reports' = error_reports
                            \o <<ErrorReport(qa, curContext, ans, "Contains English characters"),
                                 ErrorReport(qa, curContext, ans, verification.error)>>
    /\ UNCHANGED <<transVars, pc, context, answer, span, cleaned_data, cleaned_article,
                   summary>>

\* one QA pair stopped by the script filter
QaEnglish ==
    /\ pc = "qas"
    /\ \E q \in QAPool :
          LET qa == NextQa(q)
              ans == qa.answers[1]
          IN  /\ contains_english(qa.question) \/ contains_english(ans.text)
              /\ ReadQa(qa)
              /\ error_reports' = Append(error_reports,
                     ErrorReport(qa, curContext, ans, "Contains English characters"))
    /\ UNCHANGED <<transVars, pc, context, answer, span, cleaned_data, cleaned_article,
                   cleaned_qas, verified, summary>>

\* one QA pair the validator rejects
QaInvalid ==
    /\ pc = "qas"
    /\ \E q \in QAPool :
          LET qa == NextQa(q)
              ans == qa.answers[1]
              verification == verify_and_correct_example(curContext, ans)
          IN  /\ ~(contains_english(qa.question) \/ contains_english(ans.text))
              /\ ~verification.is_valid
              /\ ReadQa(qa)
              /\ verified' = Append(verified, qa.id)
              /\ error_reports' = Append(error_reports,
                     ErrorReport(qa, curContext, ans, verification.error))
    /\ UNCHANGED <<transVars, pc, context, answer, span, cleaned_data, cleaned_article,
                   cleaned_qas, summary>>

\* one QA pair the validator accepts
QaValid ==
    /\ pc = "qas"
    /\ \E q \in QAPool :
          LET qa == NextQa(q)
              ans == qa.answers[1]
              verification == verify_and_correct_example(curContext, ans)
          IN  /\ ~(contains_english(qa.question) \/ contains_english(ans.text))
              /\ verification.is_valid
              /\ ReadQa(qa)
              /\ verified' = Append(verified, qa.id)
              /\ cleaned_qas' = Append(cleaned_qas, CleanedQa(qa, verification))
    /\ UNCHANGED <<transVars, pc, context, answer, span, cleaned_data, error_reports,
                   cleaned_article, summary>>

\* a paragraph end without the emptiness test
ParaEndKeepEmpty ==
    /\ pc = "qas"
    /\ cleaned_article' = [cleaned_article EXCEPT !.paragraphs =
                              Append(@, [context |-> curContext, qas |-> cleaned_qas])]
    /\ pc' = "paras"
    /\ UNCHANGED <<transVars, context, answer, span, data, cleaned_data, error_reports,
                   cleaned_qas, verified, summary>>

\* a paragraph end that puts the paragraph in front of the earlier ones
ParaEndInFront ==
    /\ pc = "qas"
    /\ cleaned_article' =
          IF cleaned_qas # <<>>
          THEN [cleaned_article EXCEPT !.paragraphs =
                    <<[context |-> curContext, qas |-> cleaned_qas]>> \o @]
          ELSE cleaned_article
    /\ pc' = "paras"
    /\ UNCHANGED <<transVars, context, answer, span, data, cleaned_data, error_reports,
                   cleaned_qas, verified, summary>>

\* the paragraph's QA pairs are exhausted
ParaEnd ==
    /\ pc = "qas"
    /\ cleaned_article' =
          IF cleaned_qas # <<>>
          THEN [cleaned_article EXCEPT !.paragraphs =
                    Append(@, [context |-> curContext, qas |-> cleaned_qas])]
          ELSE cleaned_article
    /\ pc' = "paras"
    /\ UNCHANGED <<transVars, context, answer, span, data, cleaned_data, error_reports,
                   cleaned_qas, verified, summary>>

\* the article's paragraphs are exhausted
ArticleEnd ==
    /\ pc = "paras"
    /\ cleaned_data' =
          IF cleaned_article.paragraphs # <<>>
          THEN Append(cleaned_data, cleaned_article)
          ELSE cleaned_data
    /\ pc' = "articles"
    /\ UNCHANGED <<transVars, context, answer, span, data, error_reports,
                   cleaned_article, cleaned_qas, verified, summary>>

\* the articles are exhausted: return, then __main__'s summary
Main ==
    /\ pc = "articles"
    /\ summary' = [total_original_qas |-> CountQas(data),
                   total_cleaned_qas |-> CountQas(cleaned_data),
                   error_count |-> Len(error_reports)]
    /\ pc' = "done"
    /\ UNCHANGED <<transVars, context, answer, span, data, cleaned_data, error_reports,
                   cleaned_article, cleaned_qas, verified>>

Init == InitLocate \/ InitClean

Next ==
    \/ Locate
    \/ ArticleBegin
    \/ ParaBegin
    \/ QaEnglish
    \/ QaInvalid
    \/ QaValid
    \/ ParaEnd
    \/ ArticleEnd
    \/ Main

Spec == Init /\ [][Next]_vars

----------------------------------------------------------------------------
(* translation_pipeline.py: batch_translate_texts *)

\* batch_size = 128
SegmentLimit == 128

\* if stats['contexts_processed'] % 100 == 0
SaveEvery == 100

Min(a, b) == IF a < b THEN a ELSE b
Max(a, b) == IF a > b THEN a ELSE b

\* what the service makes of one string: every code point moved into the
\* Sinhala block (U+0D80..U+0DFF for the letters of the explored texts)
Translate(text) == [i \in 1..Len(text) |-> 3400 + text[i]]

\* client.translate(batch, ...) and the 'translatedText' of each result
ClientTranslate(batch) == [k \in 1..Len(batch) |-> Translate(batch[k])]

\* texts[i:i + batch_size]
Slice(ts, i) == SubSeq(ts, i + 1, Min(i + SegmentLimit, Len(ts)))

\* the for loop of batch_translate_texts from offset i on; sizes are the
\* lengths of the batches sent so far, failAt the call that raises
RECURSIVE TranslateLoop(_, _, _, _, _)
TranslateLoop(ts, i, all_translations, sizes, failAt) ==
    IF i >= Len(ts)
    THEN [out |-> all_translations, sizes |-> sizes, raised |-> FALSE]
    ELSE LET batch == Slice(ts, i)
         IN  IF Len(sizes) + 1 = failAt
             THEN [out |-> ts, sizes |-> Append(sizes, Len(batch)), raised |-> TRUE]
             ELSE TranslateLoop(ts, i + SegmentLimit,
                                all_translations \o ClientTranslate(batch),
                                Append(sizes, Len(batch)), failAt)

batch_translate_texts(ts, failAt) ==
    IF ts = <<>> THEN [out |-> <<>>, sizes |-> <<>>, raised |-> FALSE]
    ELSE TranslateLoop(ts, 0, <<>>, <<>>, failAt)

RECURSIVE MaxOf(_)
MaxOf(sizes) == IF sizes = <<>> THEN 0 ELSE Max(Head(sizes), MaxOf(Tail(sizes)))

\* the i-th of n distinct two-letter English strings
TextNo(i) == <<97 + (i % 26), 65 + (i % 23)>>

InitBatch ==
    /\ pc = "b_call"
    /\ \E n \in 0..MaxTexts : texts = [i \in 1..n |-> TextNo(i)]
    /\ fail_at \in 0..MaxFailAt
    /\ translations = <<>>
    /\ squad_data = <<>>
    /\ max_contexts = 0
    /\ batch_size = 1
    /\ translated_data = <<>>
    /\ stats = [contexts_processed |-> 0, qa_pairs_processed |-> 0]
    /\ current_article = [title |-> 0, paragraphs |-> <<>>]
    /\ current_batch_contexts = <<>>
    /\ current_batch_paras = <<>>
    /\ translated_contexts = <<>>
    /\ idx = 1
    /\ tail = FALSE
    /\ out_file = <<>>
    /\ raises = 0
    /\ largest_call = 0
    /\ critical = FALSE
    /\ CleanIdle

BatchCall ==
    /\ pc = "b_call"
    /\ LET r == batch_translate_texts(texts, fail_at)
       IN  /\ translations' = r.out
           /\ raises' = IF r.raised THEN 1 ELSE 0
           /\ largest_call' = MaxOf(r.sizes)
    /\ pc' = "b_done"
    /\ UNCHANGED <<cleanVars, texts, fail_at, squad_data, max_contexts, batch_size,
                   translated_data, stats, current_article, current_batch_contexts,
                   current_batch_paras, translated_contexts, idx, tail, out_file,
                   critical>>

----------------------------------------------------------------------------
(* translation_pipeline.py: translate_squad_batch *)

enContexts == {<<97, 98>>, <<98>>}
enQ1 == <<113>>
enQ2 == <<119, 104>>
enA1 == <<97>>
enA2 == <<98>>

\* the QA lists a paragraph of the document may hold (ids follow from the place)
QasPool ==
    { <<>>,
      <<[question |-> enQ1, answers |-> <<[text |-> enA1, answer_start |-> 0]>>]>>,
      <<[question |-> enQ1, answers |-> <<[text |-> enA1, answer_start |-> 0],
                                         [text |-> enA2, answer_start |-> 1]>>],
        [question |-> enQ2, answers |-> <<>>]>>,
      <<[question |-> enQ2, answers |-> <<[text |-> enA2, answer_start |-> 0]>>],
        [question |-> enQ1, answers |-> <<[text |-> enA1, answer_start |-> 0],
                                         [text |-> enA2]>>]>> }

TDocSize(d) == Len(d) + SumLen([i \in 1..Len(d) |-> d[i].paragraphs])

curTArticle == Len(squad_data)

\* the paragraph the loop reaches next, its QA pairs with their ids
NextPara(c, qas) ==
    [context |-> c,
     qas |-> [q \in 1..Len(qas) |->
                [id |-> <<curTArticle, Len(squad_data[curTArticle].paragraphs) + 1, q>>,
                 question |-> qas[q].question, answers |-> qas[q].answers]]]

\* qa_texts: each question followed by its answers' texts
RECURSIVE QaTexts(_)
QaTexts(qas) ==
    IF qas = <<>> THEN <<>>
    ELSE <<Head(qas).question>>
         \o [k \in 1..Len(Head(qas).answers) |-> Head(qas).answers[k].text]
         \o QaTexts(Tail(qas))

\* the first QA pair with an answer that has no 'answer_start' (KeyError), or 0
RECURSIVE FirstKeyError(_, _)
FirstKeyError(qas, q) ==
    IF q > Len(qas) THEN 0
    ELSE IF \E k \in 1..Len(qas[q].answers) : "answer_start" \notin DOMAIN qas[q].answers[k]
         THEN q
         ELSE FirstKeyError(qas, q + 1)

\* a QA loop that does not step over the question's slot
RECURSIVE TranslatedQasStuck(_, _, _)
TranslatedQasStuck(qas, translated_qa_texts, qa_idx) ==
    IF qas = <<>> THEN <<>>
    ELSE LET qa == Head(qas)
             n == Len(qa.answers)
         IN  <<[id |-> qa.id,
                question |-> translated_qa_texts[qa_idx + 1],
                answers |-> [k \in 1..n |->
                    [text |-> translated_qa_texts[qa_idx + k],
                     answer_start |-> qa.answers[k].answer_start]]]>>
             \o TranslatedQasStuck(Tail(qas), translated_qa_texts, qa_idx + n)

\* the QA loop: qa_idx walks translated_qa_texts (0-based) in step with the pairs
RECURSIVE TranslatedQas(_, _, _)
TranslatedQas(qas, translated_qa_texts, qa_idx) ==
    IF qas = <<>> THEN <<>>
    ELSE LET qa == Head(qas)
             n == Len(qa.answers)
         IN  <<[id |-> qa.id,
                question |-> translated_qa_texts[qa_idx + 1],
                answers |-> [k \in 1..n |->
                    [text |-> translated_qa_texts[qa_idx + 1 + k],
                     answer_start |-> qa.answers[k].answer_start]]]>>
             \o TranslatedQas(Tail(qas), translated_qa_texts, qa_idx + 1 + n)

\* the calls of one batch_translate_texts that may raise
FailChoices(ts) == IF ts # <<>> /\ raises < MaxRaises THEN {0, 1} ELSE {0}

InitPipeline ==
    /\ pc = "t_start"
    /\ texts = <<>>
    /\ fail_at = 0
    /\ translations = <<>>
    /\ squad_data = <<>>
    /\ max_contexts \in 0..MaxConfig
    /\ batch_size \in 1..MaxConfig
    /\ translated_data = <<>>
    /\ stats = [contexts_processed |-> 0, qa_pairs_processed |-> 0]
    /\ current_article = [title |-> 0, paragraphs |-> <<>>]
    /\ current_batch_contexts = <<>>
    /\ current_batch_paras = <<>>
    /\ translated_contexts = <<>>
    /\ idx = 1
    /\ tail = FALSE
    /\ out_file = <<>>
    /\ raises = 0
    /\ largest_call = 0
    /\ critical = FALSE
    /\ CleanIdle

\* config, credentials, client and document are loaded
TLoad ==
    /\ pc = "t_start"
    /\ pc' = "t_articles"
    /\ UNCHANGED <<cleanVars, transVars>>

\* loading raises: the handler prints, then reads translated_data, which is not
\* bound yet, and the run ends with that error
TLoadRaises ==
    /\ pc = "t_start"
    /\ critical' = TRUE
    /\ pc' = "t_crashed"
    /\ UNCHANGED <<cleanVars, texts, fail_at, translations, squad_data, max_contexts,
                   batch_size, translated_data, stats, current_article,
                   current_batch_contexts, current_batch_paras, translated_contexts,
                   idx, tail, out_file, raises, largest_call>>

\* for article in squad_data['data']: the next article
TArticleBegin ==
    /\ pc = "t_articles"
    /\ stats.contexts_processed < max_contexts
    /\ TDocSize(squad_data) < MaxTDocSize
    /\ squad_data' = Append(squad_data, [title |-> Len(squad_data) + 1, paragraphs |-> <<>>])
    /\ current_article' = [title |-> Len(squad_data) + 1, paragraphs |-> <<>>]
    /\ current_batch_contexts' = <<>>
    /\ current_batch_paras' = <<>>
    /\ pc' = "t_paras"
    /\ UNCHANGED <<cleanVars, texts, fail_at, translations, max_contexts, batch_size,
                   translated_data, stats, translated_contexts, idx, tail, out_file,
                   raises, largest_call, critical>>

\* for para in article['paragraphs']: the next paragraph joins the batch; a full
\* batch has its contexts translated
TParaRead ==
    /\ pc = "t_paras"
    /\ stats.contexts_processed < max_contexts
    /\ TDocSize(squad_data) < MaxTDocSize
    /\ \E c \in enContexts, qas \in QasPool :
          LET para == NextPara(c, qas)
              contexts == Append(current_batch_contexts, c)
          IN  /\ squad_data' = [squad_data EXCEPT ![curTArticle].paragraphs = Append(@, para)]
              /\ current_batch_contexts' = contexts
              /\ current_batch_paras' = Append(current_batch_paras, para)
              /\ IF Len(contexts) >= batch_size
                 THEN \E f \in FailChoices(contexts) :
                        LET r == batch_translate_texts(contexts, f)
                        IN  /\ translated_contexts' = r.out
                            /\ raises' = raises + (IF r.raised THEN 1 ELSE 0)
                            /\ largest_call' = Max(largest_call, MaxOf(r.sizes))
                            /\ idx' = 1
                            /\ tail' = FALSE
                            /\ pc' = "t_batch"
                 ELSE UNCHANGED <<translated_contexts, raises, largest_call, idx, tail, pc>>
    /\ UNCHANGED <<cleanVars, texts, fail_at, translations, max_contexts, batch_size,
                   translated_data, stats, current_article, out_file, critical>>

\* the paragraph loop ends (no paragraph left, or the break of line 98); what is
\* left in the batch has its contexts translated
TParasDone ==
    /\ pc = "t_paras"
    /\ IF current_batch_contexts # <<>>
       THEN \E f \in FailChoices(current_batch_contexts) :
              LET r == batch_translate_texts(current_batch_contexts, f)
              IN  /\ translated_contexts' = r.out
                  /\ raises' = raises + (IF r.raised THEN 1 ELSE 0)
                  /\ largest_call' = Max(largest_call, MaxOf(r.sizes))
                  /\ idx' = 1
                  /\ tail' = TRUE
                  /\ pc' = "t_batch"
       ELSE /\ pc' = "t_article_end"
            /\ UNCHANGED <<translated_contexts, raises, largest_call, idx, tail>>
    /\ UNCHANGED <<cleanVars, texts, fail_at, translations, squad_data, max_contexts,
                   batch_size, translated_data, stats, current_article,
                   current_batch_contexts, current_batch_paras, out_file, critical>>

\* one paragraph of the batch: its questions and answers are translated and
\* the translated paragraph joins the article
TBatchPara ==
    /\ pc = "t_batch"
    /\ LET orig_para == current_batch_paras[idx]
           trans_context == translated_contexts[idx]
           qa_texts == QaTexts(orig_para.qas)
       IN  /\ FirstKeyError(orig_para.qas, 1) = 0
           /\ \E f \in FailChoices(qa_texts) :
                 LET r == batch_translate_texts(qa_texts, f)
                     translated_para ==
                         [context |-> trans_context,
                          qas |-> TranslatedQas(orig_para.qas, r.out, 0)]
                 IN  /\ raises' = raises + (IF r.raised THEN 1 ELSE 0)
                     /\ largest_call' = Max(largest_call, MaxOf(r.sizes))
                     /\ current_article' = [current_article EXCEPT !.paragraphs =
                                              Append(@, translated_para)]
                     /\ stats' = [contexts_processed |-> stats.contexts_processed + 1,
                                  qa_pairs_processed |->
                                      stats.qa_pairs_processed + Len(orig_para.qas)]
    /\ IF idx < Len(current_batch_paras)
       THEN /\ idx' = idx + 1
            /\ UNCHANGED <<pc, current_batch_contexts, current_batch_paras>>
       ELSE /\ idx' = idx
            /\ IF tail
               THEN /\ pc' = "t_article_end"
                    /\ UNCHANGED <<current_batch_contexts, current_batch_paras>>
               ELSE /\ pc' = "t_paras"
                    /\ current_batch_contexts' = <<>>
                    /\ current_batch_paras' = <<>>
    /\ UNCHANGED <<cleanVars, texts, fail_at, translations, squad_data, max_contexts,
                   batch_size, translated_data, translated_contexts, tail, out_file,
                   critical>>

\* one paragraph of the batch with an answer that has no 'answer_start': the
\* KeyError reaches the handler of line 222, which prints, writes
\* translated_data and lets the function return
TBatchParaKeyError ==
    /\ pc = "t_batch"
    /\ LET orig_para == current_batch_paras[idx]
           qa_texts == QaTexts(orig_para.qas)
           bad == FirstKeyError(orig_para.qas, 1)
       IN  /\ bad > 0
           /\ \E f \in FailChoices(qa_texts) :
                 LET r == batch_translate_texts(qa_texts, f)
                 IN  /\ raises' = raises + (IF r.raised THEN 1 ELSE 0)
                     /\ largest_call' = Max(largest_call, MaxOf(r.sizes))
           /\ stats' = [stats EXCEPT !.qa_pairs_processed = @ + (bad - 1)]
    /\ critical' = TRUE
    /\ out_file' = <<translated_data>>
    /\ pc' = "t_returned"
    /\ UNCHANGED <<cleanVars, texts, fail_at, translations, squad_data, max_contexts,
                   batch_size, translated_data, current_article, current_batch_contexts,
                   current_batch_paras, translated_contexts, idx, tail>>

\* the article is added to the output; progress is saved every SaveEvery contexts
TArticleEnd ==
    /\ pc = "t_article_end"
    /\ LET added == IF current_article.paragraphs # <<>>
                    THEN Append(translated_data, current_article)
                    ELSE translated_data
       IN  /\ translated_data' = added
           /\ out_file' = IF stats.contexts_processed % SaveEvery = 0
                          THEN <<added>> ELSE out_file
    /\ pc' = "t_articles"
    /\ UNCHANGED <<cleanVars, texts, fail_at, translations, squad_data, max_contexts,
                   batch_size, stats, current_article, current_batch_contexts,
                   current_batch_paras, translated_contexts, idx, tail, raises,
                   largest_call, critical>>

\* the article loop ends (no article left, or the break of line 85): the final
\* output is written and the function returns
TFinish ==
    /\ pc = "t_articles"
    /\ out_file' = <<translated_data>>
    /\ pc' = "t_returned"
    /\ UNCHANGED <<cleanVars, texts, fail_at, translations, squad_data, max_contexts,
                   batch_size, translated_data, stats, current_article,
                   current_batch_contexts, current_batch_paras, translated_contexts,
                   idx, tail, raises, largest_call, critical>>

InitT == InitBatch \/ InitPipeline

NextT ==
    \/ BatchCall
    \/ TLoad
    \/ TLoadRaises
    \/ TArticleBegin
    \/ TParaRead
    \/ TParasDone
    \/ TBatchPara
    \/ TBatchParaKeyError
    \/ TArticleEnd
    \/ TFinish

SpecTranslate == InitT /\ [][NextT]_vars

----------------------------------------------------------------------------
(* clean_translations.py: what the properties speak of *)

\* ans occurs in ctx at offset s (0-based)
OccursAt(ctx, ans, s) ==
    /\ s + Len(ans) <= Len(ctx)
    /\ \A k \in 1..Len(ans) : ctx[s + k] = ans[k]

Occurs(ctx, ans) == \E s \in 0..Len(ctx) : OccursAt(ctx, ans, s)

FirstOccurrence(ctx, ans) ==
    CHOOSE s \in 0..Len(ctx) :
        OccursAt(ctx, ans, s) /\ \A t \in 0..(s - 1) : ~OccursAt(ctx, ans, t)

LatinLetters == (65..90) \cup (97..122)

HasLatin(text) == \E i \in 1..Len(text) : text[i] \in LatinLetters

SeqRange(s) == {s[i] : i \in 1..Len(s)}

\* an id is <<article, paragraph, pair>>, the place of the pair in the input
IdBefore(i, j) ==
    \/ i[1] < j[1]
    \/ i[1] = j[1] /\ i[2] < j[2]
    \/ i[1] = j[1] /\ i[2] = j[2] /\ i[3] < j[3]

InputIds ==
    UNION {UNION {{data[a].paragraphs[p].qas[q].id :
                      q \in 1..Len(data[a].paragraphs[p].qas)} :
                  p \in 1..Len(data[a].paragraphs)} : a \in 1..Len(data)}

InputQa(id) == data[id[1]].paragraphs[id[2]].qas[id[3]]
InputContext(id) == data[id[1]].paragraphs[id[2]].context

\* the cleaned paragraphs: returned, of the article in hand, and in hand
CleanedParas ==
    UNION {SeqRange(cleaned_data[a].paragraphs) : a \in 1..Len(cleaned_data)}
    \cup SeqRange(cleaned_article.paragraphs)

CleanedQas == UNION {SeqRange(p.qas) : p \in CleanedParas} \cup SeqRange(cleaned_qas)

\* the ids of the returned cleaned dataset, in its order
RECURSIVE Flatten(_)
Flatten(seqs) == IF seqs = <<>> THEN <<>> ELSE Head(seqs) \o Flatten(Tail(seqs))

ParaIds(p) == [i \in 1..Len(p.qas) |-> p.qas[i].id]
ArticleIds(a) == Flatten([i \in 1..Len(a.paragraphs) |-> ParaIds(a.paragraphs[i])])
ReturnedIds == Flatten([i \in 1..Len(cleaned_data) |-> ArticleIds(cleaned_data[i])])
ErrorIds == [i \in 1..Len(error_reports) |-> error_reports[i].id]

Occurrences(s, x) == Cardinality({i \in 1..Len(s) : s[i] = x})

Increasing(ids) == \A i, j \in 1..Len(ids) : i < j => IdBefore(ids[i], ids[j])

----------------------------------------------------------------------------
(* clean_translations.py: properties *)

\* C1: find_answer_span returns (s, s + len(answer)) for the lowest offset s at
\* which the answer occurs in the context, and None when it occurs nowhere.
C1_FirstOccurrenceSpan ==
    pc = "located" =>
        IF Occurs(context, answer)
        THEN /\ span # None
             /\ Len(span) = 2
             /\ OccursAt(context, answer, span[1])
             /\ \A t \in 0..(span[1] - 1) : ~OccursAt(context, answer, t)
             /\ span[2] = span[1] + Len(answer)
             /\ SubSeq(context, span[1] + 1, span[2]) = answer
        ELSE span = None

\* a located answer that occurs again further on, the first time not at offset 0
C1_Witness ==
    /\ pc = "located"
    /\ span # None
    /\ span[1] > 0
    /\ answer # <<>>
    /\ \E t \in (span[1] + 1)..Len(context) : OccursAt(context, answer, t)

\* a search that finds nothing
C1_WitnessNotFound == pc = "located" /\ span = None /\ answer # <<>>

\* C2: every cleaned QA pair carries exactly one answer: the text of the first
\* answer of its input pair, at the first offset at which that text occurs in
\* the paragraph's context, whatever offset the input carried.
C2_SingleAnswerRelocated ==
    \A qa \in CleanedQas :
        /\ qa.id \in InputIds
        /\ Len(qa.answers) = 1
        /\ DOMAIN qa.answers[1] = {"text", "answer_start"}
        /\ qa.answers[1].text = InputQa(qa.id).answers[1].text
        /\ Occurs(InputContext(qa.id), qa.answers[1].text)
        /\ qa.answers[1].answer_start =
              FirstOccurrence(InputContext(qa.id), qa.answers[1].text)

\* a returned pair whose input had a second answer and an offset that pointed at
\* a later occurrence of the text
C2_Witness ==
    /\ pc = "done"
    /\ \E i \in 1..Len(ReturnedIds) :
          LET id == ReturnedIds[i]
              first == InputQa(id).answers[1]
          IN  /\ Len(InputQa(id).answers) > 1
              /\ "answer_start" \in DOMAIN first
              /\ OccursAt(InputContext(id), first.text, first.answer_start)
              /\ first.answer_start # FirstOccurrence(InputContext(id), first.text)

\* C3: the cleaned dataset and the error reports partition the input QA pairs;
\* the cleaned count and the error count add up to the input count.
C3_Partition ==
    pc = "done" =>
        /\ summary.total_cleaned_qas + summary.error_count = summary.total_original_qas
        /\ summary.total_original_qas = Cardinality(InputIds)
        /\ Len(ReturnedIds) = summary.total_cleaned_qas
        /\ SeqRange(ReturnedIds) \cup SeqRange(ErrorIds) = InputIds
        /\ \A id \in InputIds : Occurrences(ReturnedIds, id) + Occurrences(ErrorIds, id) = 1

\* a finished run that cleaned some pairs and reported others
C3_Witness ==
    /\ pc = "done"
    /\ summary.total_cleaned_qas >= 1
    /\ summary.error_count >= 2

\* C4: an empty answer text is never located and never cleaned; it is reported
\* with 'Answer text not found in context'.
C4_EmptyAnswerNotFound ==
    /\ pc = "located" /\ answer = <<>> => span = None
    /\ \A qa \in CleanedQas : qa.answers[1].text # <<>>
    /\ \A id \in InputIds :
          InputQa(id).answers[1].text = <<>> /\ ~HasLatin(InputQa(id).question) =>
              \E i \in 1..Len(error_reports) :
                  /\ error_reports[i].id = id
                  /\ error_reports[i].error = "Answer text not found in context"

\* C5: a pair with a Latin letter in its question or its first answer text is
\* never handed to the validator and gets exactly one report, 'Contains English
\* characters'; every other pair is handed to the validator.
C5_FilterGatesValidator ==
    \A id \in InputIds :
        IF HasLatin(InputQa(id).question) \/ HasLatin(InputQa(id).answers[1].text)
        THEN /\ id \notin SeqRange(verified)
             /\ Occurrences(ErrorIds, id) = 1
             /\ \A i \in 1..Len(error_reports) :
                   error_reports[i].id = id =>
                       error_reports[i].error = "Contains English characters"
             /\ id \notin SeqRange(ReturnedIds)
        ELSE Occurrences(verified, id) = 1

\* a pair filtered for its answer text, which does not occur in its context, a
\* pair filtered for its question, and a pair that reached the validator
C5_Witness ==
    /\ pc = "done"
    /\ verified # <<>>
    /\ \E i \in 1..Len(error_reports) :
          /\ error_reports[i].error = "Contains English characters"
          /\ ~HasLatin(error_reports[i].question)
          /\ ~Occurs(error_reports[i].context, error_reports[i].answer.text)
    /\ \E i \in 1..Len(error_reports) :
          /\ error_reports[i].error = "Contains English characters"
          /\ HasLatin(error_reports[i].question)

\* the place <<article, paragraph>> of each returned paragraph
Kept(a, p) == \E id \in InputIds : id[1] = a /\ id[2] = p /\ id \notin SeqRange(ErrorIds)

\* C6: no cleaned paragraph without QA pairs, no cleaned article without
\* paragraphs; a paragraph is returned exactly when one of its pairs was
\* accepted, an article exactly when one of its paragraphs is.
C6_Pruning ==
    /\ \A p \in CleanedParas : p.qas # <<>>
    /\ \A i \in 1..Len(cleaned_data) : cleaned_data[i].paragraphs # <<>>
    /\ pc = "done" =>
          /\ \A a \in 1..Len(data) :
                (\E p \in 1..Len(data[a].paragraphs) : Kept(a, p))
                <=> (\E i \in 1..Len(cleaned_data) : cleaned_data[i].title = a)
          /\ \A a \in 1..Len(data) : \A p \in 1..Len(data[a].paragraphs) :
                Kept(a, p)
                <=> (\E i \in 1..Len(cleaned_data) :
                        /\ cleaned_data[i].title = a
                        /\ \E j \in 1..Len(cleaned_data[i].paragraphs) :
                              /\ cleaned_data[i].paragraphs[j].qas # <<>>
                              /\ cleaned_data[i].paragraphs[j].qas[1].id[2] = p)

\* a pruned article before a returned one that lost a paragraph
C6_Witness ==
    /\ pc = "done"
    /\ Len(data) = 2
    /\ data[1].paragraphs # <<>>
    /\ Len(cleaned_data) = 1
    /\ cleaned_data[1].title = 2
    /\ Len(cleaned_data[1].paragraphs) < Len(data[2].paragraphs)

\* C7: articles, paragraphs and pairs are returned in input order, each pair
\* under its own article and paragraph; the reports are in traversal order.
C7_StableOrder ==
    /\ Increasing(ReturnedIds)
    /\ Increasing(ErrorIds)
    /\ \A i \in 1..Len(cleaned_data) :
          LET art == cleaned_data[i]
          IN  /\ \A j \in 1..Len(art.paragraphs) : \A k \in 1..Len(art.paragraphs[j].qas) :
                    LET id == art.paragraphs[j].qas[k].id
                    IN  /\ id[1] = art.title
                        /\ id[2] = art.paragraphs[j].qas[1].id[2]
                        /\ art.paragraphs[j].context = InputContext(id)
                        /\ art.paragraphs[j].qas[k].question = InputQa(id).question
    /\ \A i \in 1..Len(error_reports) :
          /\ error_reports[i].id \in InputIds
          /\ error_reports[i].question = InputQa(error_reports[i].id).question
          /\ error_reports[i].context = InputContext(error_reports[i].id)
          /\ error_reports[i].answer = InputQa(error_reports[i].id).answers[1]

\* two returned paragraphs of one article around a pruned one
C7_Witness ==
    /\ pc = "done"
    /\ \E i \in 1..Len(cleaned_data) :
          /\ Len(cleaned_data[i].paragraphs) = 2
          /\ cleaned_data[i].paragraphs[2].qas[1].id[2] = 3

----------------------------------------------------------------------------
(* translation_pipeline.py: what the properties speak of *)

\* the translation of one QA pair and of one paragraph, field by field
TrQa(qa) ==
    [id |-> qa.id,
     question |-> Translate(qa.question),
     answers |-> [k \in 1..Len(qa.answers) |->
                    [text |-> Translate(qa.answers[k].text),
                     answer_start |-> qa.answers[k].answer_start]]]

TrPara(p) ==
    [context |-> Translate(p.context), qas |-> [q \in 1..Len(p.qas) |-> TrQa(p.qas[q])]]

\* every article the run has built: in hand, collected, written
BuiltArticles ==
    SeqRange(translated_data)
    \cup (IF current_article.title > 0 THEN {current_article} ELSE {})
    \cup (IF out_file = <<>> THEN {} ELSE SeqRange(out_file[1]))

ParaCount(d) == SumLen([i \in 1..Len(d) |-> d[i].paragraphs])

\* every text of a dataset
DatasetTexts(d) ==
    UNION {UNION {{d[a].paragraphs[p].context}
                  \cup {d[a].paragraphs[p].qas[q].question :
                           q \in 1..Len(d[a].paragraphs[p].qas)}
                  \cup UNION {{d[a].paragraphs[p].qas[q].answers[k].text :
                                  k \in 1..Len(d[a].paragraphs[p].qas[q].answers)} :
                              q \in 1..Len(d[a].paragraphs[p].qas)} :
                  p \in 1..Len(d[a].paragraphs)} : a \in 1..Len(d)}

----------------------------------------------------------------------------
(* translation_pipeline.py: properties *)

\* C8: a run in which a translation call or a step of translate_squad_batch
\* raised does not return as after a success with an output file that holds
\* untranslated source text or lacks paragraphs the run had read.
C8_FailsLoudly ==
    pc = "t_returned" =>
        /\ out_file # <<>>
        /\ \A t \in DatasetTexts(out_file[1]) : ~HasLatin(t)
        /\ ParaCount(out_file[1]) = ParaCount(squad_data)

\* C9: with a service that answers every call in matching position,
\* batch_translate_texts hands over at most 128 strings per call and returns the
\* translations in the order of its input; every paragraph translate_squad_batch
\* builds is the translation of the input paragraph at its place: own context,
\* own ids, own questions, own answers in order with their answer_start.
C9_PositionalCorrespondence ==
    /\ largest_call <= 128
    /\ pc = "b_done" /\ raises = 0 =>
          /\ Len(translations) = Len(texts)
          /\ \A i \in 1..Len(texts) : translations[i] = Translate(texts[i])
    /\ raises = 0 =>
          \A art \in BuiltArticles :
              /\ art.title \in 1..Len(squad_data)
              /\ Len(art.paragraphs) <= Len(squad_data[art.title].paragraphs)
              /\ \A j \in 1..Len(art.paragraphs) :
                    art.paragraphs[j] = TrPara(squad_data[art.title].paragraphs[j])

\* a written article of two paragraphs, the second with a two-answer pair
C9_Witness ==
    /\ pc = "t_returned"
    /\ raises = 0
    /\ out_file # <<>>
    /\ \E i \in 1..Len(out_file[1]) :
          /\ Len(out_file[1][i].paragraphs) = 2
          /\ out_file[1][i].paragraphs[1].context # out_file[1][i].paragraphs[2].context
          /\ \E q \in 1..Len(out_file[1][i].paragraphs[2].qas) :
                Len(out_file[1][i].paragraphs[2].qas[q].answers) = 2

\* a direct call that needed three service calls
C9_WitnessBatch ==
    /\ pc = "b_done"
    /\ raises = 0
    /\ Len(texts) > 2 * 128
    /\ largest_call = 128

\* C10: contexts_processed never exceeds max_contexts.
C10_WithinMaxContexts == stats.contexts_processed <= max_contexts

====
